---- MODULE Spec2Model ----
(***************************************************************************)
(* OptimizedLoadScheduling (xdist/scheduler/load_optimized.py): the        *)
(* bounded-queue load scheduler.  The state is the scheduler's fields      *)
(* (pending, node2pending, node2collection, collection) together with the  *)
(* Node collaborators' shutdown state; the actions are the scheduler's     *)
(* operations as the event layer calls them, one call at a time.           *)
(***************************************************************************)
EXTENDS Integers, Sequences, FiniteSets, TLC

\* ---------------------------------------------------------------- bounds
MaxNodes == 2          \* node objects that exist in a run
MaxItems == 6          \* longest collection a node reports

\* ------------------------------------------------------ program constants
MinQueueSize == 2      \* self._min_queue_size
MaxQueueSize == 2      \* self._max_queue_size
SlowThreshold == 10    \* the literal 0.1 of check_schedule, in hundredths

Node == 1..MaxNodes
Durations == {0, 10, 20}   \* 0, 0.1 and 0.2 in hundredths

\* Test identifiers are integers.  The test suite of a run is the list 1..n;
\* a node reports the suite, or miscollects it: the last identifier differs
\* (same length) or is missing (shorter).
Suites == {[i \in 1..n |-> i] : n \in 0..MaxItems}
Altered(c) == [i \in 1..Len(c) |-> IF i = Len(c) THEN 0 ELSE c[i]]
ButLast(c) == SubSeq(c, 1, Len(c) - 1)
Reports(c) == IF c = <<>> THEN {c, <<0>>} ELSE {c, Altered(c), ButLast(c)}

VARIABLES
    nodes,            \* keys of node2pending in insertion order (self.nodes)
    node2pending,     \* node -> indices assigned and not yet completed
    node2collection,  \* node -> the collection that node reported
    pending,          \* self.pending: indices not yet assigned
    collection,       \* self.collection: None or the adopted collection
    shutdown_calls,   \* per node object: how often node.shutdown() was called
    dispatched,       \* per node object: the indices the last call sent to it
    suite,            \* the test suite the nodes collect (environment)
    completed,        \* indices reported complete (ghost: completedCount)
    last,             \* the last call and the path it took (ghost)
    schedule_due      \* a collection-complete event awaits its schedule() call

vars == <<nodes, node2pending, node2collection, pending, collection,
          shutdown_calls, dispatched, suite, completed, last, schedule_due>>

\* ---------------------------------------------------------------- helpers
Min(a, b) == IF a < b THEN a ELSE b
Max(a, b) == IF a > b THEN a ELSE b
Range(s) == {s[i] : i \in 1..Len(s)}

None == [is_none |-> TRUE, items |-> <<>>]
Some(c) == [is_none |-> FALSE, items |-> c]

\* range(n) as a list: 0, 1, ..., n-1
PyRange(n) == [i \in 1..n |-> i - 1]

\* lst[:num] and lst[num:] with Python's treatment of a negative num
PySliceLen(lst, num) ==
    IF num >= 0 THEN Min(num, Len(lst)) ELSE Max(Len(lst) + num, 0)
PyHead(lst, num) == SubSeq(lst, 1, PySliceLen(lst, num))
PyTail(lst, num) == SubSeq(lst, PySliceLen(lst, num) + 1, Len(lst))

\* lst.remove(x): drop the first occurrence of x
RECURSIVE ListRemove(_, _)
ListRemove(lst, x) ==
    IF lst = <<>> THEN <<>>
    ELSE IF Head(lst) = x THEN Tail(lst)
    ELSE <<Head(lst)>> \o ListRemove(Tail(lst), x)

\* The part of the state that check_schedule and schedule mutate.
NoDispatch == [n \in Node |-> <<>>]
Sched == [pending |-> pending, node2pending |-> node2pending,
          shutdown_calls |-> shutdown_calls, dispatched |-> NoDispatch]

\* node.shutting_down
shutting_down(s, node) == s.shutdown_calls[node] > 0

\* node.shutdown(): the shutdown signal
NodeShutdown(s, node) == [s EXCEPT !.shutdown_calls[node] = @ + 1]

\* self._send_tests(node, num)
SendTests(s, node, num) ==
    LET tests_per_node == PyHead(s.pending, num) IN
    IF tests_per_node = <<>> THEN s
    ELSE [s EXCEPT !.pending = PyTail(@, num),
                   !.node2pending[node] = @ \o tests_per_node,
                   !.dispatched[node] = @ \o tests_per_node]

SkipDrainingNever(s, node) == FALSE

\* if node.shutting_down: return
SkipDraining(s, node) == shutting_down(s, node)

BelowMinimumNever(node_pending) == FALSE

\* len(node_pending) < items_per_node_min
BelowMinimum(node_pending) == Len(node_pending) < MinQueueSize

WithholdWhenSlow(node_pending, duration) == duration >= SlowThreshold

\* duration >= 0.1 and len(node_pending) >= self._max_queue_size
Withhold(node_pending, duration) ==
    duration >= SlowThreshold /\ Len(node_pending) >= MaxQueueSize

NumSendNoSubtract(node_pending) == MaxQueueSize

NumSendOne(node_pending) == 1

\* num_send = items_per_node_max - len(node_pending)
NumSend(node_pending) == MaxQueueSize - Len(node_pending)

CheckScheduleNoQueueTest(s, node, duration) ==
    IF SkipDraining(s, node) THEN [st |-> s, path |-> "draining"]
    ELSE IF s.pending # <<>> THEN
        IF node \notin DOMAIN s.node2pending THEN [st |-> s, path |-> "KeyError"]
        ELSE [st |-> SendTests(s, node, MaxQueueSize), path |-> "sent"]
    ELSE [st |-> NodeShutdown(s, node), path |-> "shutdown"]

\* check_schedule(node, duration): the resulting state and the path taken.
\* An unknown node raises KeyError at node2pending[node], before any change.
CheckScheduleResult(s, node, duration) ==
    IF SkipDraining(s, node) THEN [st |-> s, path |-> "draining"]
    ELSE IF s.pending # <<>> THEN
        IF node \notin DOMAIN s.node2pending THEN [st |-> s, path |-> "KeyError"]
        ELSE LET node_pending == s.node2pending[node] IN
             IF BelowMinimum(node_pending) THEN
                 IF Withhold(node_pending, duration)
                 THEN [st |-> s, path |-> "withheld"]
                 ELSE [st |-> SendTests(s, node, NumSend(node_pending)),
                       path |-> "sent"]
             ELSE [st |-> s, path |-> "enough"]
    ELSE [st |-> NodeShutdown(s, node), path |-> "shutdown"]

CheckFirstOnly(s, ns) ==
    IF ns = <<>> THEN s ELSE CheckScheduleResult(s, Head(ns), 0).st

\* for node in self.nodes: self.check_schedule(node)
\* (the state after each call is bound, so that it is computed once)
RECURSIVE CheckAll(_, _)
CheckAll(s, ns) ==
    IF ns = <<>> THEN s
    ELSE CHOOSE r \in {CheckAll(after, Tail(ns)) :
                          after \in {CheckScheduleResult(s, Head(ns), 0).st}} : TRUE

\* self._check_nodes_have_same_collection()
CheckNodesHaveSameCollection ==
    \A n \in DOMAIN node2collection :
        node2collection[n] = node2collection[nodes[1]]

InitialPendingDescending(col) == [i \in 1..Len(col) |-> Len(col) - i]

InitialPendingOneMore(col) == PyRange(Len(col) + 1)

DifferentTestsIgnored == FALSE

\* if not self._check_nodes_have_same_collection(): abort
DifferentTestsCollected == ~CheckNodesHaveSameCollection

EmptyCollectionIgnored(col) == FALSE

\* if not self.collection: return
EmptyCollection(col) == col = <<>>

\* self.pending[:] = range(len(self.collection))
InitialPending(col) == PyRange(Len(col))

\* initial_batch = self._max_queue_size * len(self.nodes)
InitialBatch(ns) == MaxQueueSize * Len(ns)

CycleNodeFromSecond(ns, i) == ns[((i + 1) % Len(ns)) + 1]

\* the i-th next(nodes) of nodes = cycle(self.nodes), i counted from 0
CycleNode(ns, i) == ns[(i % Len(ns)) + 1]

\* for i in range(initial_batch): self._send_tests(next(nodes), 1)
RECURSIVE Distribute(_, _, _)
Distribute(s, i, initial_batch) ==
    IF i >= initial_batch THEN s
    ELSE CHOOSE r \in {Distribute(after, i + 1, initial_batch) :
                          after \in {SendTests(s, CycleNode(nodes, i), 1)}} : TRUE

ShutdownAllButFirst(s, ns) ==
    [s EXCEPT !.shutdown_calls =
        [n \in Node |-> IF n \in Range(Tail(ns)) THEN @[n] + 1 ELSE @[n]]]

\* for node in self.nodes: node.shutdown()
RECURSIVE ShutdownAll(_, _)
ShutdownAll(s, ns) ==
    IF ns = <<>> THEN s
    ELSE ShutdownAll(NodeShutdown(s, Head(ns)), Tail(ns))

ShutdownSkipped(s) == s

\* if not self.pending: for node in self.nodes: node.shutdown()
ShutdownIfExhausted(s) ==
    IF s.pending = <<>> THEN ShutdownAll(s, nodes) ELSE s

AlreadyDistributedNever(c) == FALSE

\* self.collection is not None: the initial distribution already happened
AlreadyDistributed(c) == ~c.is_none

\* self.collection_is_completed: every known node reported its collection
collection_is_completed ==
    /\ nodes # <<>>
    /\ Range(nodes) \subseteq DOMAIN node2collection

\* What a node's collection-complete event can carry.  The suite is what the
\* first node collects; every other node agrees with it or miscollects; a
\* node that joins a run whose collection is adopted collects that collection.
ReportsOf(node) ==
    IF ~collection.is_none THEN {collection.items}
    ELSE IF nodes # <<>> /\ node = nodes[1] THEN {suite}
    ELSE Reports(suite)

\* ------------------------------------------------------------------ state
Init ==
    /\ nodes = <<>>
    /\ node2pending = <<>>
    /\ node2collection = <<>>
    /\ pending = <<>>
    /\ collection = None
    /\ shutdown_calls = [n \in Node |-> 0]
    /\ dispatched = NoDispatch
    /\ suite \in Suites
    /\ completed = {}
    /\ last = [op |-> "init", node |-> 0, path |-> "init"]
    /\ schedule_due = FALSE

Commit(s) ==
    /\ pending' = s.pending
    /\ node2pending' = s.node2pending
    /\ shutdown_calls' = s.shutdown_calls
    /\ dispatched' = s.dispatched
    /\ suite' = suite

\* add_node(node)
AddNode(node) ==
    /\ node \notin DOMAIN node2pending
    /\ nodes' = Append(nodes, node)
    /\ node2pending' = (node :> <<>>) @@ node2pending
    /\ last' = [op |-> "add_node", node |-> node, path |-> "ok"]
    /\ dispatched' = NoDispatch
    /\ UNCHANGED <<node2collection, pending, collection, shutdown_calls, suite,
                   completed, schedule_due>>

\* add_node_collection(node, collection): the node's collection-complete event
AddNodeCollection(node, c) ==
    /\ node \in DOMAIN node2pending
    /\ node \notin DOMAIN node2collection
    /\ node2collection' = (node :> c) @@ node2collection
    /\ last' = [op |-> "add_node_collection", node |-> node, path |-> "ok"]
    /\ dispatched' = NoDispatch
    /\ schedule_due' = TRUE
    /\ UNCHANGED <<nodes, node2pending, pending, collection, shutdown_calls, suite,
                   completed>>

\* schedule()
Schedule ==
    /\ collection_is_completed
    /\ IF AlreadyDistributed(collection) THEN
          /\ Commit(CheckAll(Sched, nodes))
          /\ collection' = collection
          /\ last' = [op |-> "schedule", node |-> 0, path |-> "reschedule"]
       ELSE IF DifferentTestsCollected THEN
          /\ Commit(Sched)
          /\ collection' = collection
          /\ last' = [op |-> "schedule", node |-> 0, path |-> "abort"]
       ELSE LET col == node2collection[nodes[1]]
                s0 == [Sched EXCEPT !.pending = InitialPending(col)]
                s1 == Distribute(s0, 0, InitialBatch(nodes))
            IN /\ collection' = Some(col)
               /\ IF EmptyCollection(col) THEN
                     /\ Commit(s0)
                     /\ last' = [op |-> "schedule", node |-> 0, path |-> "empty"]
                  ELSE
                     /\ Commit(ShutdownIfExhausted(s1))
                     /\ last' = [op |-> "schedule", node |-> 0, path |-> "initial"]
    /\ schedule_due' = FALSE
    /\ UNCHANGED <<nodes, node2collection, completed>>

\* check_schedule(node, duration), called directly
CheckSchedule(node, duration) ==
    LET r == CheckScheduleResult(Sched, node, duration) IN
    /\ Commit(r.st)
    /\ last' = [op |-> "check_schedule", node |-> node, path |-> r.path]
    /\ UNCHANGED <<nodes, node2collection, collection, completed, schedule_due>>

\* mark_test_complete(node, item_index, duration): the item-completion event.
\* A node runs its queue in order, so it reports the head of its queue.
MarkTestComplete(node, item_index, duration) ==
    /\ node \in DOMAIN node2pending
    /\ node2pending[node] # <<>>
    /\ item_index = Head(node2pending[node])
    /\ LET s0 == [Sched EXCEPT !.node2pending[node] = ListRemove(@, item_index)]
           r == CheckScheduleResult(s0, node, duration)
       IN /\ Commit(r.st)
          /\ last' = [op |-> "mark_test_complete", node |-> node, path |-> r.path]
    /\ completed' = completed \cup {item_index}
    /\ UNCHANGED <<nodes, node2collection, collection, schedule_due>>

Next ==
    \* node objects are interchangeable: name them in order of arrival
    \/ \E node \in Node \cap {Len(nodes) + 1} : AddNode(node)
    \/ \E node \in Node : \E c \in ReportsOf(node) : AddNodeCollection(node, c)
    \/ Schedule
    \/ \E node \in Node, duration \in Durations : CheckSchedule(node, duration)
    \/ \E node \in Node, item_index \in 0..(MaxItems - 1), duration \in Durations :
           MarkTestComplete(node, item_index, duration)

Spec == Init /\ [][Next]_vars

\* The event layer's scheduling.  A node with queued items eventually reports
\* the completion of the first; a known node eventually reports its
\* collection; a collection-complete event is followed by schedule() (the
\* worker_collectionfinish hook).  Direct calls are owed to no one.
ReportsCompletion(node) ==
    /\ node \in DOMAIN node2pending
    /\ node2pending[node] # <<>>
    /\ \E duration \in Durations :
          MarkTestComplete(node, Head(node2pending[node]), duration)

ReportsCollection(node) ==
    \E c \in ReportsOf(node) : AddNodeCollection(node, c)

SchedulesAfterCollection == schedule_due /\ Schedule

LiveSpec ==
    /\ Init /\ [][Next]_vars
    /\ \A node \in Node : WF_vars(ReportsCompletion(node))
    /\ \A node \in Node : WF_vars(ReportsCollection(node))
    /\ WF_vars(SchedulesAfterCollection)

\* ----------------------------------------------------------------- claims
Known == DOMAIN node2pending
Draining(n) == shutdown_calls[n] > 0
Adopted == ~collection.is_none
N == Len(collection.items)

RECURSIVE SumQueues(_)
SumQueues(S) ==
    IF S = {} THEN 0
    ELSE LET n == CHOOSE m \in S : TRUE
         IN Len(node2pending[n]) + SumQueues(S \ {n})

NoRepeat(lst) == \A i, j \in 1..Len(lst) : lst[i] = lst[j] => i = j

\* C1: once the collection is adopted, every index of [0, N) is in exactly one
\* of Pending, one node's queue, or the completed set: the three are pairwise
\* disjoint, no index repeats, together they are [0, N), and
\* |Pending| + sum of queue lengths + completedCount = N.
C1_Partition ==
    Adopted =>
        /\ NoRepeat(pending)
        /\ \A n \in Known : NoRepeat(node2pending[n])
        /\ \A n \in Known : Range(node2pending[n]) \cap Range(pending) = {}
        /\ \A n, m \in Known :
               n # m => Range(node2pending[n]) \cap Range(node2pending[m]) = {}
        /\ \A n \in Known : Range(node2pending[n]) \cap completed = {}
        /\ Range(pending) \cap completed = {}
        /\ Range(pending) \cup completed
              \cup UNION {Range(node2pending[n]) : n \in Known} = 0..(N - 1)
        /\ Len(pending) + SumQueues(Known) + Cardinality(completed) = N

\* C1's case: a run in which indices are in all three places at once, on two
\* nodes, after an item completed and its node was topped up.
C1_Witness ==
    /\ Adopted
    /\ pending # <<>>
    /\ completed # {}
    /\ Cardinality(Known) = 2
    /\ \A n \in Known : node2pending[n] # <<>>
    /\ last.op = "mark_test_complete" /\ last.path = "sent"

\* C2: no node's queue is ever longer than the maximum queue size.
C2_QueueBound ==
    \A n \in Known : Len(node2pending[n]) <= MaxQueueSize

\* C2's case: a node that joined after the initial distribution was filled to
\* the maximum by the schedule() call that onboarded it, and an original node
\* was topped up after a completion.
C2_Witness ==
    /\ last.op = "schedule" /\ last.path = "reschedule"
    /\ Len(nodes) = 2
    /\ Len(dispatched[nodes[2]]) = MaxQueueSize
    /\ Len(node2pending[nodes[2]]) = MaxQueueSize
    /\ Len(node2pending[nodes[1]]) = MaxQueueSize
    /\ completed # {}


\* The round-robin distribution of schedule() has been performed (N > 0).
Distributed == Adopted /\ N > 0

C4_AtMostOneShutdown ==
    \A n \in Node : shutdown_calls[n] <= 1

\* C5: in no step does the queue of a node that is already draining grow, and
\* no step dispatches an item to such a node.
C5_NoAssignAfterShutdown ==
    [][\A n \in Known :
          Draining(n) =>
              /\ Len(node2pending'[n]) <= Len(node2pending[n])
              /\ (dispatched'[n] = <<>> \/ UNCHANGED vars)]_vars

\* The step is the schedule() call that adopts a collection.
Adopts == collection.is_none /\ ~collection'.is_none
SizeAdopted == Len(collection'.items)

\* The elements of a set of integers in ascending order.
Ascending(S) ==
    CHOOSE s \in [1..Cardinality(S) -> S] :
        \A i, j \in 1..Cardinality(S) : i < j => s[i] < s[j]

\* What round robin gives the node at position p (from 1) of K nodes when
\* the indices 0..B-1 are dealt one at a time.
RoundRobinShare(p, K, B) == Ascending({i \in 0..(B - 1) : i % K = p - 1})

\* C6: the schedule() call that adopts a collection of N > 0 items assigns
\* min(N, maxQueueSize * K) items, index i to node number i mod K, dispatches
\* exactly those, and leaves Pending as the remaining indices in ascending order.
C6_InitialRoundRobin ==
    [][(Adopts /\ SizeAdopted > 0) =>
        LET K == Len(nodes)
            B == Min(SizeAdopted, MaxQueueSize * K)
        IN /\ \A p \in 1..K :
                 /\ node2pending'[nodes[p]] = RoundRobinShare(p, K, B)
                 /\ dispatched'[nodes[p]] = RoundRobinShare(p, K, B)
           /\ pending' = [j \in 1..(SizeAdopted - B) |-> B + j - 1]]_vars

\* C6's case: two nodes, six items: the first node holds 0 and 2, the second
\* 1 and 3, and 4 and 5 stay in Pending.
C6_Witness ==
    /\ last.op = "schedule" /\ last.path = "initial"
    /\ Len(nodes) = 2 /\ N = 6
    /\ node2pending[nodes[1]] = <<0, 2>>
    /\ node2pending[nodes[2]] = <<1, 3>>
    /\ pending = <<4, 5>>

\* C7 as claimed: whenever N <= maxQueueSize * K, the adopting schedule() call
\* leaves Pending empty, every node with its round-robin share of at most two
\* items, and every node with exactly one shutdown signal received.
C7_Claimed ==
    [][(Adopts /\ SizeAdopted <= MaxQueueSize * Len(nodes)) =>
        /\ pending' = <<>>
        /\ \A p \in 1..Len(nodes) :
              /\ dispatched'[nodes[p]] = RoundRobinShare(p, Len(nodes), SizeAdopted)
              /\ Len(dispatched'[nodes[p]]) <= 2
              /\ shutdown_calls'[nodes[p]] = 1]_vars

\* C7 amended: for 1 <= N <= maxQueueSize * K the adopting schedule() call
\* leaves Pending empty, gives every node its round-robin share of at most
\* two items and sends every node exactly one shutdown signal; for N = 0 it
\* sends none.
C7_SmallCollection ==
    [][(Adopts /\ SizeAdopted <= MaxQueueSize * Len(nodes)) =>
        /\ pending' = <<>>
        /\ \A p \in 1..Len(nodes) :
              /\ dispatched'[nodes[p]] = RoundRobinShare(p, Len(nodes), SizeAdopted)
              /\ Len(dispatched'[nodes[p]]) <= 2
              /\ shutdown_calls'[nodes[p]] =
                    shutdown_calls[nodes[p]] + (IF SizeAdopted = 0 THEN 0 ELSE 1)]_vars

\* C7's case: three items on two nodes: the first node got 0 and 2, the
\* second got 1, and both were shut down by the call.
C7_Witness ==
    /\ last.op = "schedule" /\ last.path = "initial"
    /\ Len(nodes) = 2 /\ N = 3
    /\ dispatched[nodes[1]] = <<0, 2>> /\ dispatched[nodes[2]] = <<1>>
    /\ pending = <<>>
    /\ \A n \in Known : shutdown_calls[n] = 1

\* C8: whenever some node is draining, Pending is empty.
C8_DrainingOnlyWhenExhausted ==
    (\E n \in Node : Draining(n)) => pending = <<>>

\* The reports the scheduler holds are not all the same.
ReportsDiffer ==
    \E n, m \in DOMAIN node2collection : node2collection[n] # node2collection[m]

\* C9: a schedule() call made while the reported collections differ and no
\* collection is adopted changes nothing: no collection is adopted, Pending
\* stays empty, no queue changes, nothing is dispatched, no shutdown is sent.
C9_MismatchAborts ==
    [][(last'.op = "schedule" /\ collection.is_none /\ ReportsDiffer) =>
        /\ collection'.is_none
        /\ pending' = <<>>
        /\ node2pending' = node2pending
        /\ dispatched' = NoDispatch
        /\ shutdown_calls' = shutdown_calls]_vars

\* C9's case: schedule() has just aborted on two reports of the same length
\* that differ in one identifier.
C9_Witness ==
    /\ last.op = "schedule" /\ last.path = "abort"
    /\ collection.is_none /\ pending = <<>>
    /\ Len(nodes) = 2
    /\ Len(node2collection[nodes[1]]) = Len(node2collection[nodes[2]])
    /\ node2collection[nodes[1]] # node2collection[nodes[2]]

\* The step is a schedule() call that leaves an empty collection adopted.
SchedulesEmpty ==
    last'.op = "schedule" /\ ~collection'.is_none /\ collection'.items = <<>>

\* C10 as claimed: no schedule() call on an empty collection, adopting or
\* later, assigns an item or sends a shutdown signal.
C10_Claimed ==
    [][SchedulesEmpty =>
        /\ node2pending' = node2pending
        /\ dispatched' = NoDispatch
        /\ shutdown_calls' = shutdown_calls]_vars

\* C10 amended: no schedule() call on an empty collection assigns an item;
\* the adopting call sends no shutdown signal, and every later call sends it
\* to each known node that is not yet draining.
C10_EmptyCollection ==
    [][SchedulesEmpty =>
        /\ node2pending' = node2pending
        /\ dispatched' = NoDispatch
        /\ pending' = <<>>
        /\ shutdown_calls' =
              IF collection.is_none THEN shutdown_calls
              ELSE [n \in Node |->
                      IF n \in Known /\ shutdown_calls[n] = 0 THEN 1
                      ELSE shutdown_calls[n]]]_vars

\* C10's case: a second schedule() call on an adopted empty collection has
\* just shut down both nodes.
C10_Witness ==
    /\ last.op = "schedule" /\ last.path = "reschedule"
    /\ Adopted /\ N = 0
    /\ Len(nodes) = 2
    /\ \A n \in Known : shutdown_calls[n] = 1

\* The step is a direct check_schedule call on node n.
ChecksNode(n) == last'.op = "check_schedule" /\ last'.node = n

\* C11: check_schedule on a known node that is not draining, with Pending
\* non-empty and q items queued, changes nothing if q >= minQueueSize and
\* otherwise moves the first min(maxQueueSize - q, |Pending|) indices of
\* Pending, in order, to the end of that node's queue and dispatches them; no
\* other queue changes and no shutdown signal is sent.
C11_TopUp ==
    [][\A n \in Known :
          (ChecksNode(n) /\ ~Draining(n) /\ pending # <<>>) =>
              LET q == Len(node2pending[n])
                  k == IF q >= MinQueueSize THEN 0
                       ELSE Min(MaxQueueSize - q, Len(pending))
              IN /\ pending' = SubSeq(pending, k + 1, Len(pending))
                 /\ node2pending' =
                       [node2pending EXCEPT ![n] = @ \o SubSeq(pending, 1, k)]
                 /\ dispatched' = [NoDispatch EXCEPT ![n] = SubSeq(pending, 1, k)]
                 /\ shutdown_calls' = shutdown_calls]_vars

\* C11's case: a node that joined with an empty queue while four indices were
\* pending was sent the two lowest of them by a direct check_schedule call.
C11_Witness ==
    /\ last.op = "check_schedule" /\ last.path = "sent"
    /\ last.node = 2
    /\ dispatched[2] = <<2, 3>>
    /\ node2pending[2] = <<2, 3>>
    /\ pending = <<4, 5>>
    /\ node2pending[1] = <<0, 1>>

\* C12: check_schedule on a node that is already draining is a no-op for every
\* duration and every content of Pending: Pending, all queues and all shutdown
\* counts are unchanged and nothing is dispatched; so with Pending empty a
\* second check_schedule on the same node changes nothing after the first.
C12_DrainingNoOp ==
    /\ [][\A n \in Node :
             (ChecksNode(n) /\ Draining(n)) =>
                 /\ UNCHANGED <<pending, node2pending, shutdown_calls>>
                 /\ dispatched' = NoDispatch
                 /\ last'.path = "draining"]_vars
    /\ [](\A n \in Node : \A d1, d2 \in Durations :
             pending = <<>> =>
                 LET once == CheckScheduleResult(Sched, n, d1).st
                 IN CheckScheduleResult(once, n, d2).st = once)

\* C12's case: a direct check_schedule call on a draining node returned at
\* once although Pending still held items.
C12_Witness ==
    /\ last.op = "check_schedule" /\ last.path = "draining"
    /\ Draining(last.node)
    /\ pending # <<>>
    /\ shutdown_calls[last.node] = 1

\* C13: check_schedule on a node the scheduler does not know (no queue in
\* node2pending) always ends in the error outcome, whatever Pending holds, and
\* neither assigns items to that node nor sends it the shutdown signal.
C13_UnknownNodeRejected ==
    [][\A n \in Node :
          (ChecksNode(n) /\ n \notin Known) =>
              /\ last'.path = "KeyError"
              /\ dispatched' = NoDispatch
              /\ shutdown_calls' = shutdown_calls]_vars

\* What a check_schedule(n, 0) call would move to node n if Pending were long
\* enough: nothing for a draining node or a queue at the minimum.
Wants(n) ==
    IF Draining(n) \/ Len(node2pending[n]) >= MinQueueSize THEN 0
    ELSE MaxQueueSize - Len(node2pending[n])

\* The number of pending indices handed to the nodes before position i of the
\* node order, when each node in turn is topped up from the front of Pending.
RECURSIVE TakenBefore(_)
TakenBefore(i) ==
    IF i <= 1 THEN 0
    ELSE LET t == TakenBefore(i - 1)
         IN t + Min(Wants(nodes[i - 1]), Len(pending) - t)

\* C14: a schedule() call made after the collection was adopted performs no
\* round-robin distribution; its effect is that of check_schedule(node, 0) on
\* every known node in node order: each node in turn, unless it is draining or
\* holds minQueueSize items, receives min(maxQueueSize - q, |Pending left|)
\* indices from the front of what is left of Pending, or the shutdown signal if
\* nothing is left.  A joiner with an empty queue so receives
\* min(maxQueueSize, |Pending left|) indices, or the shutdown signal.
C14_RescheduleIsCheckAll ==
    [][(Adopted /\ last'.op = "schedule") =>
          /\ last'.path = "reschedule"
          /\ collection' = collection
          /\ pending' = SubSeq(pending, TakenBefore(Len(nodes) + 1) + 1, Len(pending))
          /\ DOMAIN node2pending' = DOMAIN node2pending
          /\ \A i \in 1..Len(nodes) :
                LET n == nodes[i]
                    t == TakenBefore(i)
                    k == Min(Wants(n), Len(pending) - t)
                    got == SubSeq(pending, t + 1, t + k)
                IN /\ node2pending'[n] = node2pending[n] \o got
                   /\ dispatched'[n] = got
                   /\ shutdown_calls'[n] = shutdown_calls[n] +
                         (IF ~Draining(n) /\ Len(pending) = t THEN 1 ELSE 0)
                   /\ (node2pending[n] = <<>> /\ ~Draining(n)) =>
                         IF Len(pending) > t
                         THEN Len(got) = Min(MaxQueueSize, Len(pending) - t)
                         ELSE shutdown_calls'[n] = 1 /\ got = <<>>
          /\ \A n \in Node \ Known :
                shutdown_calls'[n] = shutdown_calls[n] /\ dispatched'[n] = <<>>]_vars

\* C14's case: a schedule() call after the initial distribution gave the two
\* lowest pending indices to a node that had joined with an empty queue.
C14_Witness ==
    /\ last.op = "schedule" /\ last.path = "reschedule"
    /\ Len(nodes) = 2
    /\ node2pending[1] = <<0, 1>>
    /\ dispatched[2] = <<2, 3>>
    /\ node2pending[2] = <<2, 3>>
    /\ pending = <<4, 5>>
    /\ shutdown_calls = [n \in Node |-> 0]

\* The durations at or above the slow threshold of line 49.
SlowDurations == {d \in Durations : d >= SlowThreshold}

\* C15: check_schedule(node, duration) with duration >= the slow threshold on
\* a known node that is not draining and whose queue holds maxQueueSize items
\* sends that node nothing and leaves Pending and every queue as they were,
\* also when Pending is non-empty.
C15_FullQueueNotToppedUp ==
    \A n \in Known : \A d \in SlowDurations :
        (~Draining(n) /\ Len(node2pending[n]) = MaxQueueSize) =>
            LET r == CheckScheduleResult(Sched, n, d)
            IN /\ r.st.pending = pending
               /\ r.st.node2pending = node2pending
               /\ r.st.dispatched = NoDispatch
               /\ pending # <<>> => r.st.shutdown_calls = shutdown_calls

\* C15's case: a direct check_schedule call on a node holding two items
\* returned without sending while four indices were pending.
C15_Witness ==
    /\ last.op = "check_schedule" /\ last.path = "enough"
    /\ ~Draining(last.node)
    /\ Len(node2pending[last.node]) = MaxQueueSize
    /\ Len(pending) = 4
    /\ dispatched = NoDispatch

\* The step is the schedule() call that finds the reported collections equal
\* and fills the empty Pending with every index of the adopted collection.
Populates ==
    /\ Adopts
    /\ last'.op = "schedule"
    /\ ~DifferentTestsCollected
    /\ pending = <<>>
    /\ Range(pending') \cup UNION {Range(dispatched'[n]) : n \in Node} =
          0..(Len(collection'.items) - 1)

\* C16: Pending is populated once, by the schedule() call that confirms the
\* collection agreement: before it Pending is empty, no other step adds an
\* index to Pending, and after it the collection stays adopted and in every
\* step the content of Pending is a subset of its previous content, so an
\* index that has left Pending never returns.
C16_PendingOnlyShrinks ==
    [][/\ Adopts => Populates
       /\ ~(Range(pending') \subseteq Range(pending)) => Populates
       /\ (~Adopted /\ ~Adopts) => (pending = <<>> /\ pending' = <<>>)
       /\ Adopted =>
             /\ Adopted' /\ collection' = collection
             /\ Range(pending') \subseteq Range(pending)
             /\ Len(pending') <= Len(pending)]_vars

\* C16's case: after the populating schedule() call, completions have drawn
\* Pending down to its last index.
C16_Witness ==
    /\ Adopted /\ N = 6
    /\ pending = <<5>>
    /\ completed # {}
    /\ last.op = "mark_test_complete" /\ last.path = "sent"

StrictlyAscending(lst) == \A i, j \in 1..Len(lst) : i < j => lst[i] < lst[j]

\* The indices handed to a node so far: those still queued and those completed.
Assigned == completed \cup UNION {Range(node2pending[n]) : n \in Known}

\* C17: items are handed out in collection order and each queue is FIFO in
\* send order: in every reachable state Pending is the ascending run
\* k, k+1, .., N-1 for some k, every index assigned so far is smaller than
\* every index still in Pending, and each node's queue is strictly ascending.
C17_CollectionOrder ==
    /\ ~Adopted => pending = <<>>
    /\ Adopted =>
          \E k \in 0..N :
              /\ pending = [i \in 1..(N - k) |-> k + i - 1]
              /\ \A a \in Assigned : a < k
    /\ \A a \in Assigned : \A p \in Range(pending) : a < p
    /\ \A n \in Known : StrictlyAscending(node2pending[n])

\* C17's case: two nodes were served alternately, the first was topped up
\* after a completion, and the last index is still pending.
C17_Witness ==
    /\ Adopted /\ N = 6
    /\ pending = <<5>>
    /\ node2pending[1] = <<2, 4>>
    /\ node2pending[2] = <<1, 3>>
    /\ completed = {0}

\* The scheduler state in which mark_test_complete(n, head of n's queue, d)
\* calls check_schedule(n, d): the reported item has left n's queue.
AfterCompletion(n) ==
    [Sched EXCEPT !.node2pending[n] = ListRemove(@, Head(node2pending[n]))]

\* C18: with minQueueSize = maxQueueSize the outcome of check_schedule does
\* not depend on the duration: in every reachable state, for every node, calls
\* that differ only in the duration (called directly or from an item
\* completion) return the same Pending, queues, dispatched items and shutdown
\* counts on the same path, and the withholding branch is never taken.
C18_DurationIrrelevant ==
    /\ MinQueueSize = MaxQueueSize
    /\ last.path # "withheld"
    /\ \A n \in Node : \A d1, d2 \in Durations :
          /\ CheckScheduleResult(Sched, n, d1) = CheckScheduleResult(Sched, n, d2)
          /\ CheckScheduleResult(Sched, n, d1).path # "withheld"
    /\ \A n \in Known : \A d1, d2 \in Durations :
          node2pending[n] # <<>> =>
              /\ CheckScheduleResult(AfterCompletion(n), n, d1) =
                    CheckScheduleResult(AfterCompletion(n), n, d2)
              /\ CheckScheduleResult(AfterCompletion(n), n, d1).path # "withheld"

\* C18's case: a node on its second completion report, whatever duration it
\* reported, was topped up to two items while more indices were pending.
C18_Witness ==
    /\ last.op = "mark_test_complete" /\ last.path = "sent"
    /\ Cardinality(completed) = 2
    /\ Len(nodes) = 1
    /\ node2pending[1] = <<2, 3>>
    /\ dispatched[1] = <<3>>
    /\ pending = <<4, 5>>

\* C19: once K >= 1 nodes agree on N items (the collection is adopted), and
\* every node with a non-empty queue eventually reports a completion, Pending
\* eventually becomes empty and every index of [0, N) is eventually completed.
C19_AllItemsComplete ==
    Adopted ~> (pending = <<>> /\ completed = 0..(N - 1))

\* Node n is not idle: it holds work or it has been told to shut down.
Served(n) == Draining(n) \/ node2pending[n] # <<>>

\* C20: no node idles while it could be given work.  Every node that takes
\* part in the initial distribution of N > 0 items is served by that
\* schedule() call, and a served node is still served after every later step,
\* in particular after each of its item completions (the item is removed, then
\* check_schedule runs for the node): a node of the initial set whose queue is
\* empty has received the shutdown signal.  A node that joins later is outside
\* the claim until a call first serves it.
C20_NoIdleNode ==
    [][/\ (Adopts /\ Len(collection'.items) > 0) =>
             \A n \in Range(nodes) :
                 Draining(n)' \/ node2pending'[n] # <<>>
       /\ Distributed =>
             \A n \in Known :
                 Served(n) => (Draining(n)' \/ node2pending'[n] # <<>>)]_vars

\* C20's case: of two nodes that took part in the initial distribution of five
\* items, the first was topped up with the last index and still holds work,
\* the second was shut down when it reported with Pending empty and has since
\* reported its last item.
C20_Witness ==
    /\ Distributed /\ N = 5
    /\ last.op = "mark_test_complete" /\ last.node = 2 /\ last.path = "draining"
    /\ node2pending[1] = <<2, 4>> /\ ~Draining(1)
    /\ node2pending[2] = <<>> /\ Draining(2)
    /\ completed = {0, 1, 3}

====
